---- MODULE Spec2Model ----
(***************************************************************************)
(* Model of nodes/uiblib.js: inputHandler, sendControl, processClose and   *)
(* the string helpers processClose uses (urlJoin, escapeRegExp).           *)
(*                                                                         *)
(* JavaScript strings that the code inspects character by character (URL   *)
(* paths, regular-expression sources) are sequences of one-character       *)
(* strings.  A message is a function from the keys it owns to their        *)
(* values.  Every observable call a handler makes on its collaborators     *)
(* (socket.io emit, node.send, node.status, disconnect, splice, done) is   *)
(* appended, in program order, to `effects`, the log of the current call.  *)
(***************************************************************************)
EXTENDS Integers, Sequences, FiniteSets, TLC

\* ---------------------------------------------------------------- bounds
MaxMsgs == 2    \* inputHandler calls explored per behaviour
MaxStack == 3   \* route entries in app._router.stack at start
MaxProps == 2   \* candidate paths in the array passed to getProps

\* ------------------------------------------------------------ JS values
Undefined == "undefined"           \* an omitted argument
Truthy(v) == v # "" /\ v # Undefined

Clients == {"c1", "c2"}            \* socket ids

MsgKeys == {"uibuilderCtrl", "script", "style", "_socketId", "topic"}

ValsOf(k) ==
  CASE k = "uibuilderCtrl" -> {"", "shutdown"}
    [] k = "script"        -> {"x"}
    [] k = "style"         -> {"y"}
    [] k = "_socketId"     -> {"", "c1"}
    [] k = "topic"         -> {"t"}

AllVals == UNION {ValsOf(k) : k \in MsgKeys}

\* every message the flow can hand to inputHandler / sendControl
Msgs ==
  UNION { {m \in [D -> AllVals] : \A k \in D : m[k] \in ValsOf(k)} : D \in SUBSET MsgKeys }

\* the messages sendControl is called with: no script or style content
ControlMsgs == {m \in Msgs : DOMAIN m \subseteq {"uibuilderCtrl", "_socketId", "topic"}}

EmptyMsg == [k \in {} |-> ""]

hasOwnProperty(m, k) == k \in DOMAIN m
Get(m, k) == IF k \in DOMAIN m THEN m[k] ELSE Undefined
Delete(m, k) == [j \in DOMAIN m \ {k} |-> m[j]]
Set(m, k, v) == [j \in DOMAIN m \cup {k} |-> IF j = k THEN v ELSE m[j]]

\* node.ioChannels: the two socket.io event names of the endpoint
ioChannels == [control |-> "uiBuilderControl", server |-> "uiBuilder"]
\* node.ioNamespace
ioNamespace == "/ns"

\* ------------------------------------------------------------- effects
Eff(kind, channel, to, rcpt, msg, idx) ==
  [kind |-> kind, channel |-> channel, to |-> to, rcpt |-> rcpt, msg |-> msg, idx |-> idx]

\* ioNs.to(id).emit(channel, msg): reaches the socket `id` if it is connected
EmitTo(conn, channel, id, msg) ==
  Eff("emit", channel, id, {c \in conn : c = id}, msg, 0)
\* ioNs.emit(channel, msg): reaches every socket connected to the namespace
EmitAll(conn, channel, msg) ==
  Eff("emit", channel, "*", conn, msg, 0)
\* node.send(msg)
Send1(msg) == Eff("send", "-", "out1", {}, msg, 0)
\* node.send([null, msg])
Send2(msg) == Eff("send", "-", "out2", {}, msg, 0)

Range(s) == {s[i] : i \in 1..Len(s)}

\* ------------------------------------------------------ string helpers
Slash == "/"
BackSlash == "\\"

\* e.replace(/^\/|\/$/g, ''): one leading and one trailing slash go
StripSlash(e) ==
  LET a == IF Len(e) > 0 /\ e[1] = Slash THEN Tail(e) ELSE e
  IN  IF Len(a) > 0 /\ a[Len(a)] = Slash THEN SubSeq(a, 1, Len(a) - 1) ELSE a

RECURSIVE JoinSlash(_)
JoinSlash(parts) ==
  IF parts = <<>> THEN <<>>
  ELSE IF Len(parts) = 1 THEN parts[1]
  ELSE parts[1] \o <<Slash>> \o JoinSlash(Tail(parts))

urlJoin(paths) ==
  <<Slash>> \o JoinSlash(SelectSeq([i \in 1..Len(paths) |-> StripSlash(paths[i])],
                                    LAMBDA e : e # <<>>))

RegExpSpecials == {".", "*", "+", "?", "^", "$", "{", "}", "(", ")", "|", "[", "]", BackSlash}

RECURSIVE escapeRegExp(_)
escapeRegExp(string) ==
  IF string = <<>> THEN <<>>
  ELSE (IF string[1] \in RegExpSpecials THEN <<BackSlash, string[1]>> ELSE <<string[1]>>)
       \o escapeRegExp(Tail(string))

\* Does the regular expression with source src, from position i, match x from
\* position j?  Covers the constructs a source built at line 87 can hold:
\* ^, $, ., .*, an escaped character, a literal character.
RECURSIVE ReMatch(_, _, _, _)
ReMatch(src, i, x, j) ==
  IF i > Len(src) THEN TRUE
  ELSE IF src[i] = "^" THEN j = 1 /\ ReMatch(src, i + 1, x, j)
  ELSE IF src[i] = "$" THEN j = Len(x) + 1 /\ ReMatch(src, i + 1, x, j)
  ELSE IF src[i] = "." /\ i < Len(src) /\ src[i + 1] = "*"
       THEN \E k \in j..(Len(x) + 1) : ReMatch(src, i + 2, x, k)
  ELSE IF src[i] = "." THEN j <= Len(x) /\ ReMatch(src, i + 1, x, j + 1)
  ELSE IF src[i] = BackSlash /\ i < Len(src)
       THEN j <= Len(x) /\ x[j] = src[i + 1] /\ ReMatch(src, i + 2, x, j + 1)
  ELSE j <= Len(x) /\ x[j] = src[i] /\ ReMatch(src, i + 1, x, j + 1)

\* new RegExp('^' + escapeRegExp('/^\\' + urlJoin(node.url)) + '.*$')
urlRe(url) ==
  <<"^">> \o escapeRegExp(<<Slash, "^", BackSlash>> \o urlJoin(<<url>>)) \o <<".", "*", "$">>

\* str.replace(re, ''): re starts with ^ and ends with .*$, so a match spans
\* the whole of str
Replace(str, re) == IF ReMatch(re, 1, str, 1) THEN <<>> ELSE str

\* ------------------------------------------------------- route entries
PathA == <<"/", "a">>
PathAB == <<"/", "a", "/", "b">>
PathC == <<"/", "c">>
MountPaths == {PathA, PathAB, PathC}

RECURSIVE EscSlashes(_)
EscSlashes(p) ==
  IF p = <<>> THEN <<>>
  ELSE (IF p[1] = Slash THEN <<BackSlash, Slash>> ELSE <<p[1]>>) \o EscSlashes(Tail(p))

\* r.regexp.toString() of the layer the router made for app.use(path, ...):
\* /^\/a\/?(?=\/|$)/i for path /a
RegexpToString(r) ==
  <<Slash, "^">> \o EscSlashes(r.path)
    \o <<BackSlash, Slash, "?", "(", "?", "=", BackSlash, Slash, "|", "$", ")", Slash, "i">>

\* node.url as configured: with or without the slashes urlJoin strips
Urls == { <<"/", "a", "/">>, <<"a", "/", "b">> }

\* ----------------------------------------------------------------- state
VARIABLES
  node,            \* the endpoint: rcvMsgCount, allowScripts, allowStyles, fwdInMessages, topic, url
  helpersInScope,  \* do the free names setNodeStatus, sendControl, urlJoin, escapeRegExp resolve?
  connected,       \* ioNs.connected: the connected socket ids, in insertion order
  listeners,       \* does the namespace still have event listeners?
  nsps,            \* io.nsps: the namespace names the server knows
  stack,           \* app._router.stack
  pc,              \* position of processClose
  done,            \* was a done callback passed to processClose?
  faultAt,         \* the collaborator call that raises in this processClose call
  sockets,         \* connectedNameSpaceSockets (line 75)
  removePath,      \* removePath (line 86): 0-based indices
  loopIdx,         \* index of the running loop (forEach at 77, for at 98)
  atEntry,         \* app._router.stack and ioNs.connected as processClose found them
  lastOp,          \* the handler called last
  arg,             \* the message it was given
  argId,           \* the socketId argument it was given (sendControl)
  msgAfter,        \* the same message object after the call
  ret,             \* what inputHandler returned
  effects,         \* calls made on the collaborators by the current call, in order
  handled,         \* number of inputHandler calls made so far
  lookup           \* the last getProps call: its arguments and what it returned

vars ==
  <<node, helpersInScope, connected, listeners, nsps, stack, pc, done, faultAt,
    sockets, removePath, loopIdx, atEntry, lastOp, arg, argId, msgAfter, ret, effects,
    handled, lookup>>

closeVars == <<pc, done, faultAt, sockets, removePath, loopIdx, atEntry>>
worldVars == <<connected, listeners, nsps, stack>>
callVars == <<lastOp, arg, argId, msgAfter, ret, effects>>

Topics == {"", "nt"}
SocketIdArgs == {Undefined, "c2"}
\* the collaborator calls of processClose that can raise
FaultPoints == {"enumerate", "disconnect", "listeners", "deregister", "prune"}

RetNull == [null |-> TRUE, msg |-> EmptyMsg]
RetMsg(m) == [null |-> FALSE, msg |-> m]

NoRepeat(q) == \A a, b \in 1..Len(q) : a # b => q[a] # q[b]

Stacks == UNION {[1..n -> [path : MountPaths]] : n \in 0..MaxStack}

\* ------------------------------------------------------------- getProps
\* myObj: a and c are absent, a primitive or (a only) an object holding b
ObjectValue == "[object]"
Objs ==
  {o \in [a : {Undefined, "", "v", ObjectValue}, b : {Undefined, "", "w"}, c : {Undefined, "", "x"}] :
     o.a # ObjectValue => o.b = Undefined}
PropPaths == {"a", "a.b", "c"}
\* the outcome of a call that raised
Throws == "throws"

\* RED.util.getMessageProperty(myObj, path): raises when an intermediate
\* property does not exist
getMessageProperty(myObj, path) ==
  CASE path = "a"   -> myObj.a
    [] path = "c"   -> myObj.c
    [] path = "a.b" -> IF myObj.a = Undefined THEN Throws
                       ELSE IF myObj.a = ObjectValue THEN myObj.b ELSE Undefined

\* the props argument: a string, an array of strings, or something else
PropsArgs ==
  {[kind |-> "string", paths |-> <<p>>] : p \in PropPaths}
    \cup {[kind |-> "array", paths |-> q] : q \in UNION {[1..n -> PropPaths] : n \in 0..MaxProps}}
    \cup {[kind |-> "other", paths |-> <<>>]}

\* lines 174-184: ans after the loop; an exception of the lookup is swallowed
RECURSIVE ScanProps(_, _, _)
ScanProps(myObj, props, j) ==
  IF j > Len(props) THEN Undefined
  ELSE LET ans == getMessageProperty(myObj, props[j])
       IN  IF ans = Throws THEN ScanProps(myObj, props, j + 1)
           ELSE IF ans # Undefined THEN ans
           ELSE ScanProps(myObj, props, j + 1)

\* lines 167-186
getProps(myObj, props, defaultAnswer) ==
  IF props.kind \notin {"string", "array"} THEN Undefined
  ELSE LET ans == ScanProps(myObj, props.paths, 1)
       IN  IF Truthy(ans) THEN ans ELSE defaultAnswer

DefaultAnswer == "dflt"
NoLookup ==
  [called |-> FALSE, myObj |-> [a |-> Undefined, b |-> Undefined, c |-> Undefined],
   props |-> [kind |-> "other", paths |-> <<>>], defaultAnswer |-> DefaultAnswer,
   result |-> Undefined]

\* no handler has been called yet
NoCallYet ==
  /\ pc = "idle"
  /\ done = FALSE
  /\ faultAt = "none"
  /\ sockets = <<>>
  /\ removePath = <<>>
  /\ loopIdx = 0
  /\ atEntry = [stack |-> <<>>, connected |-> <<>>]
  /\ lastOp = "none"
  /\ arg = EmptyMsg
  /\ argId = Undefined
  /\ msgAfter = EmptyMsg
  /\ ret = RetNull
  /\ effects = <<>>
  /\ handled = 0
  /\ lookup = NoLookup

Nodes ==
  [rcvMsgCount : {0}, allowScripts : BOOLEAN, allowStyles : BOOLEAN,
   fwdInMessages : BOOLEAN, topic : Topics, url : Urls]

Connections == {q \in UNION {[1..n -> Clients] : n \in 0..Cardinality(Clients)} : NoRepeat(q)}

ExampleStack == <<[path |-> PathA], [path |-> PathAB], [path |-> PathC]>>

\* the endpoint as mounted: namespace registered, listeners attached
Mounted ==
  /\ listeners = TRUE
  /\ nsps = {ioNamespace, "/"}

\* message routing: every endpoint configuration, every set of connected clients
InitRouter ==
  /\ node \in {n \in Nodes : n.url = <<"/", "a", "/">>}
  /\ helpersInScope = TRUE
  /\ connected \in Connections
  /\ stack = ExampleStack
  /\ Mounted
  /\ NoCallYet

\* teardown: every route registry, every set of connected clients
InitClose ==
  /\ node \in {n \in Nodes : ~n.allowScripts /\ ~n.allowStyles /\ n.fwdInMessages}
  /\ helpersInScope \in BOOLEAN
  /\ connected \in Connections
  /\ stack \in Stacks
  /\ Mounted
  /\ NoCallYet

\* property lookups: the endpoint plays no part
InitProps ==
  /\ node = [rcvMsgCount |-> 0, allowScripts |-> FALSE, allowStyles |-> FALSE,
             fwdInMessages |-> FALSE, topic |-> "", url |-> <<"/", "a", "/">>]
  /\ helpersInScope = TRUE
  /\ connected = <<>>
  /\ stack = <<>>
  /\ Mounted
  /\ NoCallYet

\* all handlers together
Init ==
  /\ node \in {n \in Nodes : ~n.allowScripts /\ n.allowStyles}
  /\ helpersInScope \in BOOLEAN
  /\ connected \in {<<>>, <<"c1", "c2">>}
  /\ stack = ExampleStack
  /\ Mounted
  /\ NoCallYet

\* ---------------------------------------------------------- inputHandler
\* a test of the marker's value instead of its presence
IsControlMsg_Truthy(msg) == Truthy(Get(msg, "uibuilderCtrl"))

\* line 26
IsControlMsg(msg) == hasOwnProperty(msg, "uibuilderCtrl")

\* one flag governing both keys
Sanitize_OneFlag(msg, n) ==
  LET m1 == IF n.allowScripts # TRUE /\ hasOwnProperty(msg, "script")
            THEN Delete(msg, "script") ELSE msg
  IN  IF n.allowScripts # TRUE /\ hasOwnProperty(m1, "style")
      THEN Delete(m1, "style") ELSE m1

\* lines 31-36
Sanitize(msg, n) ==
  LET m1 == IF n.allowScripts # TRUE /\ hasOwnProperty(msg, "script")
            THEN Delete(msg, "script") ELSE msg
  IN  IF n.allowStyles # TRUE /\ hasOwnProperty(m1, "style")
      THEN Delete(m1, "style") ELSE m1

\* the target id ignored
Deliver_Broadcast(conn, channel, msg) == EmitAll(conn, channel, msg)

\* lines 40-44 (channel is node.ioChannels.server) and 199-200 (control)
Deliver(conn, channel, msg) ==
  IF Truthy(Get(msg, "_socketId"))
  THEN EmitTo(conn, channel, msg["_socketId"], msg)
  ELSE EmitAll(conn, channel, msg)

\* the forwarding flag ignored
Forward_Unconditional(n, msg) == <<Send1(msg)>>

\* lines 48-52
Forward(n, msg) == IF n.fwdInMessages THEN <<Send1(msg)>> ELSE <<>>

\* the counter incremented after the control-message test instead of before
inputHandler_CountAfterDrop(msg, n, conn) ==
  LET n1 == [n EXCEPT !.rcvMsgCount = @ + 1]
      m  == Sanitize(msg, n)
  IN  IF IsControlMsg(msg)
      THEN [node |-> n, effects |-> <<>>, msg |-> msg, ret |-> RetNull]
      ELSE [node |-> n1,
            effects |-> <<Deliver(conn, ioChannels.server, m)>> \o Forward(n, m),
            msg |-> m, ret |-> RetMsg(m)]

\* lines 22-55: the node after the call, the calls made, the message object
\* after the call and the value returned
inputHandler(msg, n, conn) ==
  LET n1 == [n EXCEPT !.rcvMsgCount = @ + 1]
      m  == Sanitize(msg, n)
  IN  IF IsControlMsg(msg)
      THEN [node |-> n1, effects |-> <<>>, msg |-> msg, ret |-> RetNull]
      ELSE [node |-> n1,
            effects |-> <<Deliver(conn, ioChannels.server, m)>> \o Forward(n, m),
            msg |-> m, ret |-> RetMsg(m)]

InputHandler(msg) ==
  /\ pc = "idle"
  /\ node.rcvMsgCount < MaxMsgs
  /\ LET r == inputHandler(msg, node, Range(connected))
     IN  /\ node' = r.node
         /\ effects' = r.effects
         /\ msgAfter' = r.msg
         /\ ret' = r.ret
  /\ lastOp' = "inputHandler"
  /\ arg' = msg
  /\ argId' = Undefined
  /\ handled' = handled + 1
  /\ UNCHANGED <<lookup, helpersInScope, worldVars, closeVars>>

\* ----------------------------------------------------------- sendControl
\* the socketId argument not written to the message
StampSocketId_Skip(msg, socketId) == msg

\* line 196
StampSocketId(msg, socketId) ==
  IF Truthy(socketId) THEN Set(msg, "_socketId", socketId) ELSE msg

\* the default topic written over a topic the message already has
StampTopic_Overwrite(msg, n) ==
  IF n.topic # "" THEN Set(msg, "topic", n.topic) ELSE msg

\* line 202
StampTopic(msg, n) ==
  IF ~hasOwnProperty(msg, "topic") /\ n.topic # "" THEN Set(msg, "topic", n.topic) ELSE msg

\* nothing mirrored to the second output when the emission reached nobody
sendControl_SilentWhenAlone(msg, conn, n, socketId) ==
  LET m1 == StampSocketId(msg, socketId)
      m2 == StampTopic(m1, n)
      e  == Deliver(conn, ioChannels.control, m1)
  IN  [effects |-> <<e>> \o (IF e.rcpt = {} THEN <<>> ELSE <<Send2(m2)>>), msg |-> m2]

\* the topic written before the emission
sendControl_StampFirst(msg, conn, n, socketId) ==
  LET m1 == StampSocketId(msg, socketId)
      m2 == StampTopic(m1, n)
  IN  [effects |-> <<Deliver(conn, ioChannels.control, m2), Send2(m2)>>, msg |-> m2]

\* the emission made on the data channel
sendControl_DataChannel(msg, conn, n, socketId) ==
  LET m1 == StampSocketId(msg, socketId)
      m2 == StampTopic(m1, n)
  IN  [effects |-> <<Deliver(conn, ioChannels.server, m1), Send2(m2)>>, msg |-> m2]

\* lines 195-206: the calls made and the message object after the call
sendControl(msg, conn, n, socketId) ==
  LET m1 == StampSocketId(msg, socketId)
      m2 == StampTopic(m1, n)
  IN  [effects |-> <<Deliver(conn, ioChannels.control, m1), Send2(m2)>>, msg |-> m2]

SendControl(msg, socketId) ==
  /\ pc = "idle"
  /\ LET r == sendControl(msg, Range(connected), node, socketId)
     IN  /\ effects' = r.effects
         /\ msgAfter' = r.msg
  /\ lastOp' = "sendControl"
  /\ arg' = msg
  /\ argId' = socketId
  /\ ret' = RetNull
  /\ UNCHANGED <<node, handled, lookup, helpersInScope, worldVars, closeVars>>


\* ---------------------------------------------------------- processClose
\* lines 122-126: node.status(status); a status that is no object becomes
\* the text of a grey ring
setNodeStatus(status) ==
  Eff("status", "-", "-", {},
      IF DOMAIN status = {"fill", "shape", "text"} THEN status
      ELSE [fill |-> "grey", shape |-> "ring", text |-> status], 0)

ClosedStatus == [fill |-> "red", shape |-> "ring", text |-> "CLOSED"]
ShutdownMsg == [uibuilderCtrl |-> "shutdown", from |-> "server"]

\* lines 88-95: the 0-based indices of the entries whose pattern urlRe wipes out
MatchingIndices(stk, url) ==
  SelectSeq([j \in 1..Len(stk) |-> j - 1],
            LAMBDA ix : Replace(RegexpToString(stk[ix + 1]), urlRe(url)) = <<>>)

\* the index taken as 1-based: the entry after the collected one goes
Splice_Shifted(stk, ix) ==
  [j \in 1..(Len(stk) - (IF ix + 1 < Len(stk) THEN 1 ELSE 0)) |->
     IF j <= ix + 1 THEN stk[j] ELSE stk[j + 1]]

\* stack.splice(ix, 1)
Splice(stk, ix) ==
  [j \in 1..(Len(stk) - (IF ix < Len(stk) THEN 1 ELSE 0)) |->
     IF j <= ix THEN stk[j] ELSE stk[j + 1]]

Remove(q, c) == SelectSeq(q, LAMBDA e : e # c)

\* an exception leaves processClose: nothing after the raising line runs
Throw ==
  /\ pc' = "threw"
  /\ UNCHANGED <<node, handled, lookup, helpersInScope, worldVars, done, faultAt, sockets, removePath,
                 loopIdx, atEntry, lastOp, arg, argId, msgAfter, ret, effects>>

\* lines 66-67: entry
ProcessClose(d, f) ==
  /\ pc = "idle"
  /\ pc' = "status"
  /\ done' = d
  /\ faultAt' = f
  /\ sockets' = <<>>
  /\ removePath' = <<>>
  /\ loopIdx' = 0
  /\ atEntry' = [stack |-> stack, connected |-> connected]
  /\ lastOp' = "processClose"
  /\ arg' = EmptyMsg
  /\ argId' = Undefined
  /\ msgAfter' = EmptyMsg
  /\ ret' = RetNull
  /\ effects' = <<>>
  /\ UNCHANGED <<node, handled, lookup, helpersInScope, worldVars>>

\* line 69: setNodeStatus is a free name in this module: a ReferenceError
\* unless the enclosing scope binds it
CloseStatus ==
  /\ pc = "status"
  /\ IF helpersInScope
     THEN /\ effects' = Append(effects, setNodeStatus(ClosedStatus))
          /\ pc' = "notify"
          /\ UNCHANGED <<node, handled, lookup, helpersInScope, worldVars, done, faultAt, sockets,
                         removePath, loopIdx, atEntry, lastOp, arg, argId, msgAfter, ret>>
     ELSE Throw

\* line 72
CloseNotify ==
  /\ pc = "notify"
  /\ effects' = effects \o sendControl(ShutdownMsg, Range(connected), node, Undefined).effects
  /\ pc' = "enumerate"
  /\ UNCHANGED <<node, handled, lookup, helpersInScope, worldVars, done, faultAt, sockets, removePath,
                 loopIdx, atEntry, lastOp, arg, argId, msgAfter, ret>>

\* line 75
CloseEnumerate ==
  /\ pc = "enumerate"
  /\ IF faultAt = "enumerate" THEN Throw
     ELSE /\ sockets' = connected
          /\ loopIdx' = 0
          /\ pc' = IF Len(connected) > 0 THEN "disconnect" ELSE "listeners"
          /\ UNCHANGED <<node, handled, lookup, helpersInScope, worldVars, done, faultAt, removePath,
                         atEntry, lastOp, arg, argId, msgAfter, ret, effects>>

\* lines 77-79, one socket: ioNs.connected[socketId] is read from the live
\* map, and disconnect() takes the socket out of it
CloseDisconnect ==
  /\ pc = "disconnect"
  /\ LET socketId == sockets[loopIdx + 1]
     IN  IF faultAt = "disconnect" \/ socketId \notin Range(connected) THEN Throw
         ELSE /\ connected' = Remove(connected, socketId)
              /\ effects' = Append(effects, Eff("disconnect", "-", socketId, {}, EmptyMsg, 0))
              /\ loopIdx' = loopIdx + 1
              /\ pc' = IF loopIdx + 1 < Len(sockets) THEN "disconnect" ELSE "listeners"
              /\ UNCHANGED <<node, handled, lookup, helpersInScope, listeners, nsps, stack, done, faultAt,
                             sockets, removePath, atEntry, lastOp, arg, argId, msgAfter, ret>>

\* line 81
CloseListeners ==
  /\ pc = "listeners"
  /\ IF faultAt = "listeners" THEN Throw
     ELSE /\ listeners' = FALSE
          /\ effects' = Append(effects, Eff("removeAllListeners", "-", "-", {}, EmptyMsg, 0))
          /\ pc' = "deregister"
          /\ UNCHANGED <<node, handled, lookup, helpersInScope, connected, nsps, stack, done, faultAt,
                         sockets, removePath, loopIdx, atEntry, lastOp, arg, argId, msgAfter, ret>>

\* line 82
CloseDeregister ==
  /\ pc = "deregister"
  /\ IF faultAt = "deregister" THEN Throw
     ELSE /\ nsps' = nsps \ {ioNamespace}
          /\ effects' = Append(effects, Eff("deleteNsp", "-", ioNamespace, {}, EmptyMsg, 0))
          /\ pc' = "collect"
          /\ UNCHANGED <<node, handled, lookup, helpersInScope, connected, listeners, stack, done, faultAt,
                         sockets, removePath, loopIdx, atEntry, lastOp, arg, argId, msgAfter, ret>>

\* the entries spliced out inside the forEach pass (the code commented out at
\* line 93): the pass goes on over the shrinking array
RECURSIVE SpliceInPass(_, _, _)
SpliceInPass(stk, url, ix) ==
  IF ix >= Len(stk) THEN stk
  ELSE IF Replace(RegexpToString(stk[ix + 1]), urlRe(url)) = <<>>
       THEN SpliceInPass([j \in 1..(Len(stk) - 1) |-> IF j <= ix THEN stk[j] ELSE stk[j + 1]],
                         url, ix + 1)
       ELSE SpliceInPass(stk, url, ix + 1)

CloseCollect_SpliceInPass ==
  /\ pc = "collect"
  /\ IF faultAt = "prune" THEN Throw
     ELSE /\ stack' = SpliceInPass(stack, node.url, 0)
          /\ removePath' = <<>>
          /\ loopIdx' = -1
          /\ pc' = "callback"
          /\ UNCHANGED <<node, handled, lookup, helpersInScope, connected, listeners, nsps,
                         done, faultAt, sockets, atEntry, callVars>>

\* lines 86-95: the whole forEach pass
CloseCollect ==
  /\ pc = "collect"
  /\ IF faultAt = "prune" THEN Throw
     ELSE LET found == MatchingIndices(stack, node.url)
          IN  /\ removePath' = found
              /\ loopIdx' = Len(found) - 1
              /\ pc' = IF Len(found) > 0 THEN "splice" ELSE "callback"
              /\ UNCHANGED <<node, handled, lookup, helpersInScope, worldVars, done, faultAt, sockets,
                             atEntry, lastOp, arg, argId, msgAfter, ret, effects>>

\* lines 98-100, one iteration
CloseSplice ==
  /\ pc = "splice"
  /\ stack' = Splice(stack, removePath[loopIdx + 1])
  /\ effects' = Append(effects, Eff("splice", "-", "-", {}, EmptyMsg, removePath[loopIdx + 1]))
  /\ loopIdx' = loopIdx - 1
  /\ pc' = IF loopIdx - 1 >= 0 THEN "splice" ELSE "callback"
  /\ UNCHANGED <<node, handled, lookup, helpersInScope, connected, listeners, nsps, done, faultAt, sockets,
                 removePath, atEntry, lastOp, arg, argId, msgAfter, ret>>

\* line 114
CloseCallback ==
  /\ pc = "callback"
  /\ effects' = IF done THEN Append(effects, Eff("done", "-", "-", {}, EmptyMsg, 0)) ELSE effects
  /\ pc' = "done"
  /\ UNCHANGED <<node, handled, lookup, helpersInScope, worldVars, done, faultAt, sockets, removePath,
                 loopIdx, atEntry, lastOp, arg, argId, msgAfter, ret>>


\* -------------------------------------------------------------- getProps
GetProps(myObj, props) ==
  /\ lookup' = [called |-> TRUE, myObj |-> myObj, props |-> props,
                defaultAnswer |-> DefaultAnswer,
                result |-> getProps(myObj, props, DefaultAnswer)]
  /\ UNCHANGED <<node, handled, helpersInScope, worldVars, closeVars, callVars>>

\* ------------------------------------------------------------------ spec
NextRouter ==
  \/ \E msg \in Msgs : InputHandler(msg)
  \/ \E msg \in ControlMsgs, socketId \in SocketIdArgs : SendControl(msg, socketId)

NextClose ==
  \/ \E d \in BOOLEAN, f \in FaultPoints \cup {"none"} : ProcessClose(d, f)
  \/ CloseStatus
  \/ CloseNotify
  \/ CloseEnumerate
  \/ CloseDisconnect
  \/ CloseListeners
  \/ CloseDeregister
  \/ CloseCollect
  \/ CloseSplice
  \/ CloseCallback

NextProps ==
  \E myObj \in Objs, props \in PropsArgs : GetProps(myObj, props)

Next ==
  \/ NextRouter
  \/ NextClose

SpecRouter == InitRouter /\ [][NextRouter]_vars
SpecClose == InitClose /\ [][NextClose]_vars
Spec == Init /\ [][Next]_vars
SpecProps == InitProps /\ [][NextProps]_vars

\* ================================================================ claims
Emits(log) == SelectSeq(log, LAMBDA e : e.kind = "emit")
Sends(log) == SelectSeq(log, LAMBDA e : e.kind = "send")
Kinds(log) == [j \in 1..Len(log) |-> log[j].kind]
CarriesMarker(m) == "uibuilderCtrl" \in DOMAIN m
\* the message names a client: a _socketId that is a socket id, not an empty one
HasTarget(m) == "_socketId" \in DOMAIN m /\ m["_socketId"] # ""
DataCall == lastOp = "inputHandler" /\ ~CarriesMarker(arg)
Finished == pc \in {"done", "threw"}
\* the path the endpoint with this node.url is mounted on
BasePath == IF node.url = <<"/", "a", "/">> THEN PathA ELSE PathAB

\* C1: an inputHandler call with a message that has the uibuilderCtrl key,
\* whatever its value, returns null, adds exactly 1 to rcvMsgCount, makes no
\* call on the transport or on node.send (fwdInMessages or not) and leaves the
\* message as it was.
C1_ControlMsgDropped ==
  [][ (lastOp' = "inputHandler" /\ CarriesMarker(arg')) =>
        /\ ret' = [null |-> TRUE, msg |-> EmptyMsg]
        /\ node'.rcvMsgCount = node.rcvMsgCount + 1
        /\ effects' = <<>>
        /\ msgAfter' = arg' ]_vars

C1_Witness ==
  /\ lastOp = "inputHandler"
  /\ CarriesMarker(arg) /\ arg["uibuilderCtrl"] = ""
  /\ "script" \in DOMAIN arg /\ node.allowScripts = FALSE
  /\ node.fwdInMessages
  /\ ret.null /\ effects = <<>> /\ node.rcvMsgCount = 1

\* C6: for a data message, the message emitted to the transport and the
\* message returned have no script key unless allowScripts is true and no
\* style key unless allowStyles is true; with the flag true the key keeps the
\* value it came with.
C6_ScriptStyleStripped ==
  DataCall =>
    /\ Len(Emits(effects)) = 1
    /\ ~ret.null
    /\ \A m \in {Emits(effects)[1].msg, ret.msg} :
         /\ node.allowScripts # TRUE => "script" \notin DOMAIN m
         /\ node.allowStyles # TRUE => "style" \notin DOMAIN m
         /\ (node.allowScripts = TRUE /\ "script" \in DOMAIN arg) =>
               ("script" \in DOMAIN m /\ m["script"] = arg["script"])
         /\ (node.allowStyles = TRUE /\ "style" \in DOMAIN arg) =>
               ("style" \in DOMAIN m /\ m["style"] = arg["style"])

C6_Witness ==
  /\ DataCall
  /\ {"script", "style"} \subseteq DOMAIN arg
  /\ node.allowScripts = TRUE /\ node.allowStyles = FALSE
  /\ DOMAIN ret.msg = {"script"}

\* C7: a data message that names a client (a non-empty _socketId) is emitted
\* exactly once, on the data channel, to that client alone and never to the
\* namespace; a data message that names none is emitted exactly once, on the
\* data channel, to the whole namespace.
C7_TargetedOrBroadcast ==
  DataCall =>
    LET es == Emits(effects)
    IN  /\ Len(es) = 1
        /\ es[1].channel = ioChannels.server
        /\ IF HasTarget(arg)
           THEN es[1].to = arg["_socketId"] /\ es[1].rcpt \subseteq {arg["_socketId"]}
           ELSE es[1].to = "*" /\ es[1].rcpt = Range(connected)

C7_Witness ==
  /\ DataCall
  /\ HasTarget(arg) /\ arg["_socketId"] = "c1"
  /\ Range(connected) = {"c1", "c2"}
  /\ Emits(effects)[1].rcpt = {"c1"}

\* C8: for a data message node.send is called once if fwdInMessages is true
\* and not at all otherwise; when called, it comes after the transport
\* emission and with the same sanitized message that was emitted and is
\* returned (input {script, topic} with allowScripts false: {topic} on the
\* data channel and on the output).
C8_ForwardAfterEmit ==
  DataCall =>
    /\ Len(Sends(effects)) = (IF node.fwdInMessages THEN 1 ELSE 0)
    /\ node.fwdInMessages =>
         /\ Kinds(effects) = <<"emit", "send">>
         /\ effects[2].to = "out1"
         /\ effects[2].msg = effects[1].msg
         /\ effects[2].msg = ret.msg
    /\ (node.fwdInMessages /\ node.allowScripts = FALSE
          /\ arg = [script |-> "x", topic |-> "t"]) =>
         /\ effects[1].channel = ioChannels.server
         /\ effects[1].msg = [topic |-> "t"]
         /\ effects[2].msg = [topic |-> "t"]
         /\ node.rcvMsgCount >= 1

C8_Witness ==
  /\ DataCall
  /\ node.fwdInMessages /\ node.allowScripts = FALSE
  /\ arg = [script |-> "x", topic |-> "t"]
  /\ node.rcvMsgCount = 1
  /\ Len(effects) = 2

\* C9: every sendControl call, whatever the message, the socketId argument
\* and the connected clients, calls node.send exactly once, with the pair
\* [null, msg]; this holds of a direct call and of the call processClose makes.
C9_OneMirrorPerCall ==
  /\ lastOp = "sendControl" =>
       /\ Len(Sends(effects)) = 1
       /\ Sends(effects)[1].to = "out2"
       /\ Sends(effects)[1].msg = msgAfter
  /\ lastOp = "processClose" =>
       /\ Len(Sends(effects)) = Len(Emits(effects))
       /\ \A j \in 1..Len(Sends(effects)) :
            /\ Sends(effects)[j].to = "out2"
            /\ CarriesMarker(Sends(effects)[j].msg)

C9_Witness ==
  /\ lastOp = "sendControl"
  /\ connected = <<>>
  /\ Emits(effects)[1].rcpt = {}
  /\ Len(Sends(effects)) = 1

C2_PruneExactlyBasePath ==
  pc = "done" =>
    stack = SelectSeq(atEntry.stack, LAMBDA r : r.path # BasePath)

\* C3: a processClose call that was given a callback invokes it exactly once,
\* last, after the status report, the shutdown notice, the disconnect of every
\* client, the listener removal, the deregistration and the pruning; a call
\* given no callback goes through the same steps and ends without an error.
C3_CallbackOnceAndLast ==
  Finished =>
    /\ pc = "done"
    /\ Kinds(effects)[1] = "status"
    /\ Len(Emits(effects)) = 1
    /\ {e.to : e \in {x \in Range(effects) : x.kind = "disconnect"}} = Range(atEntry.connected)
    /\ \E j \in 1..Len(effects) : effects[j].kind = "removeAllListeners"
    /\ \E j \in 1..Len(effects) : effects[j].kind = "deleteNsp"
    /\ Len(SelectSeq(effects, LAMBDA e : e.kind = "done")) = (IF done THEN 1 ELSE 0)
    /\ done => effects[Len(effects)].kind = "done"

\* C4: an exception raised by the client enumeration, a disconnect, the
\* listener removal, the deregistration or the pruning is caught inside
\* processClose: the later steps are still attempted and the callback, if one
\* was given, is still invoked.
C4_FaultsCaught ==
  (Finished /\ helpersInScope /\ faultAt \in FaultPoints) =>
    /\ pc = "done"
    /\ done => effects[Len(effects)].kind = "done"

\* C5: in one processClose call the shutdown message is emitted exactly once,
\* on the control channel, to the whole namespace, before any client is
\* disconnected, so it reaches every client that was connected at the start.
C5_NotifyBeforeDisconnect ==
  Finished =>
    LET es == Emits(effects)
    IN  /\ Len(es) = 1
        /\ es[1].msg = [uibuilderCtrl |-> "shutdown", from |-> "server"]
        /\ es[1].channel = ioChannels.control
        /\ es[1].to = "*"
        /\ es[1].rcpt = Range(atEntry.connected)
        /\ \A j, k \in 1..Len(effects) :
             (effects[j].kind = "emit" /\ effects[k].kind = "disconnect") => j < k

\* C11: sendControl writes node.topic to a message that has no topic key if
\* and only if node.topic is not empty; a message that has a topic key keeps
\* its value; with an empty node.topic the message sent to the second output
\* has no topic key added (without a socketId argument it is the message as
\* passed in).
C11_DefaultTopicStamp ==
  lastOp = "sendControl" =>
    /\ Len(Sends(effects)) = 1
    /\ Sends(effects)[1].msg = msgAfter
    /\ "topic" \in DOMAIN arg =>
         ("topic" \in DOMAIN msgAfter /\ msgAfter["topic"] = arg["topic"])
    /\ "topic" \notin DOMAIN arg =>
         /\ "topic" \in DOMAIN msgAfter <=> node.topic # ""
         /\ "topic" \in DOMAIN msgAfter => msgAfter["topic"] = node.topic
    /\ node.topic = "" =>
         /\ "topic" \in DOMAIN msgAfter <=> "topic" \in DOMAIN arg
         /\ argId = Undefined => msgAfter = arg

C11_Witness ==
  /\ lastOp = "sendControl"
  /\ "topic" \notin DOMAIN arg
  /\ node.topic = "nt"
  /\ Sends(effects)[1].msg["topic"] = "nt"

\* C12: once processClose has completed, the registry holds no entry mounted
\* for the torn-down base path, whatever the registry held: any number of
\* such entries, at any positions, adjacent ones, first or last.
C12_NoBasePathEntryLeft ==
  pc = "done" => \A j \in 1..Len(stack) : stack[j].path # BasePath

\* C13: processClose disconnects every client whose id it enumerated, each
\* exactly once, going through the snapshot of ids while the disconnects
\* shrink the live map; afterwards the namespace has no listeners and is no
\* longer in io.nsps under node.ioNamespace.
Enumerated == helpersInScope /\ faultAt # "enumerate"
Disconnects(log) == SelectSeq(log, LAMBDA e : e.kind = "disconnect")
C13_SnapshotDisconnect ==
  (Finished /\ Enumerated) =>
    /\ sockets = atEntry.connected
    /\ [j \in 1..Len(Disconnects(effects)) |-> Disconnects(effects)[j].to] = sockets
    /\ connected = <<>>
    /\ listeners = FALSE
    /\ ioNamespace \notin nsps

\* C14: rcvMsgCount never decreases; every inputHandler call adds exactly 1
\* to it, whether the message is dropped, sanitized, targeted or broadcast; no
\* step of sendControl or processClose (setNodeStatus included) changes it;
\* after every step it equals the number of inputHandler calls made.
C14_CounterCountsCalls ==
  [][ /\ node'.rcvMsgCount >= node.rcvMsgCount
      /\ node'.rcvMsgCount - node.rcvMsgCount = handled' - handled
      /\ node'.rcvMsgCount = handled'
      /\ lastOp' # "inputHandler" => node'.rcvMsgCount = node.rcvMsgCount ]_vars

C14_Witness ==
  /\ pc = "done"
  /\ handled = 2
  /\ node.rcvMsgCount = 2

\* C15: getProps returns the value of the first candidate path, in list
\* order, that is found on the object, whatever that value is, and the
\* default only when no candidate path is found; it never raises, also when
\* the lookup of a path raises.
FoundAt(j) ==
  getMessageProperty(lookup.myObj, lookup.props.paths[j]) \notin {Throws, Undefined}
C15_FirstFoundOrDefault ==
  (lookup.called /\ lookup.props.kind \in {"string", "array"}) =>
    LET hits == {j \in 1..Len(lookup.props.paths) : FoundAt(j)}
    IN  /\ lookup.result # Throws
        /\ hits = {} => lookup.result = lookup.defaultAnswer
        /\ hits # {} =>
             lookup.result =
               getMessageProperty(lookup.myObj,
                                  lookup.props.paths[CHOOSE j \in hits : \A k \in hits : j <= k])

\* C16: the pass that collects the matching indices leaves the registry as it
\* is and collects them in ascending order; the registry changes only in the
\* removal loop that follows, one splice per collected index, in strictly
\* descending index order, each splice taking out the entry that had that
\* index when it was collected.
Splices(log) == SelectSeq(log, LAMBDA e : e.kind = "splice")
Ascending(q) == \A j \in 1..(Len(q) - 1) : q[j] < q[j + 1]
Descending(q) == \A j \in 1..(Len(q) - 1) : q[j] > q[j + 1]
C16_CollectThenSpliceDescending ==
  [][ /\ pc # "splice" => stack' = stack
      /\ pc = "collect" => (Splices(effects') = <<>> /\ Ascending(removePath'))
      /\ pc = "splice" =>
           LET ix == removePath[loopIdx + 1]
           IN  /\ stack[ix + 1] = atEntry.stack[ix + 1]
               /\ Len(stack') = Len(stack) - 1
               /\ \A j \in 1..Len(stack') :
                    stack'[j] = IF j <= ix THEN stack[j] ELSE stack[j + 1]
               /\ Len(Splices(effects')) = Len(Splices(effects)) + 1
               /\ Splices(effects')[Len(Splices(effects'))].idx = ix
      /\ LET idxs == [j \in 1..Len(Splices(effects')) |-> Splices(effects')[j].idx]
         IN  /\ Descending(idxs)
             /\ pc' \in {"callback", "done"} =>
                  idxs = [j \in 1..Len(removePath') |->
                            removePath'[Len(removePath') + 1 - j]] ]_vars

C16_Witness ==
  /\ pc = "callback"
  /\ removePath = <<0, 1>>
  /\ Len(Splices(effects)) = 2
  /\ Len(stack) = Len(atEntry.stack) - 2

\* C17: in a sendControl call the order is emit, topic stamp, node.send: the
\* message as emitted on the control channel has the topic the caller gave it
\* (none, when the caller gave none) while the message sent to the second
\* output carries the default topic.
C17_EmitBeforeTopicStamp ==
  lastOp = "sendControl" =>
    /\ Kinds(effects) = <<"emit", "send">>
    /\ "topic" \in DOMAIN effects[1].msg <=> "topic" \in DOMAIN arg
    /\ ("topic" \notin DOMAIN arg /\ node.topic # "") =>
         /\ "topic" \notin DOMAIN effects[1].msg
         /\ "topic" \in DOMAIN effects[2].msg
         /\ effects[2].msg["topic"] = node.topic
         /\ effects[2].msg = [k \in DOMAIN effects[1].msg \cup {"topic"} |->
                                IF k = "topic" THEN node.topic ELSE effects[1].msg[k]]

C17_Witness ==
  /\ lastOp = "sendControl"
  /\ "topic" \notin DOMAIN arg
  /\ node.topic = "nt"
  /\ "topic" \notin DOMAIN effects[1].msg
  /\ effects[2].msg["topic"] = "nt"

\* C18: the channels are never crossed: every emission of an inputHandler
\* call is on ioChannels.server and carries no uibuilderCtrl key, every
\* emission of a sendControl or processClose call is on ioChannels.control,
\* and the two channel names differ.
C18_ChannelsNotCrossed ==
  /\ ioChannels.server # ioChannels.control
  /\ \A j \in 1..Len(effects) :
       effects[j].kind = "emit" =>
         /\ lastOp \in {"inputHandler", "sendControl", "processClose"}
         /\ lastOp = "inputHandler" =>
              (effects[j].channel = ioChannels.server /\ ~CarriesMarker(effects[j].msg))
         /\ lastOp \in {"sendControl", "processClose"} =>
              effects[j].channel = ioChannels.control

C18_Witness ==
  /\ lastOp = "processClose"
  /\ handled >= 1
  /\ Len(Emits(effects)) = 1
  /\ Emits(effects)[1].channel = "uiBuilderControl"

====
